---- MODULE Spec2Model ----
(***************************************************************************)
(* Model of backup.py, the Streamlit retail sales forecast dashboard.      *)
(*                                                                         *)
(* The script is re-executed top to bottom on every user interaction.      *)
(* One action of the model is one user change of a sidebar selectbox       *)
(* followed by the whole rerun of the script.  A DataFrame is modelled as  *)
(* the sequence of its rows; a DataFrame obtained by boolean-mask          *)
(* filtering of raw_df is modelled by the sequence of the index labels     *)
(* (row numbers of raw_df) it keeps, as pandas keeps the index.            *)
(* Dates are day numbers, ids (state, store_id, product_id) are naturals   *)
(* ordered as sorted() orders them.                                        *)
(***************************************************************************)
EXTENDS Integers, Sequences, FiniteSets

VARIABLES
    raw_df,       \* the loaded table (cached, never mutated)
    widgets,      \* session state of the three selectboxes
    state,        \* value returned by the "Select State" selectbox
    store,        \* value returned by the "Select Store" selectbox
    product,      \* value returned by the "Select Product" selectbox
    filtered_df,  \* index labels of the rows of raw_df kept by the mask
    latest,       \* index label of the row picked by sort_values().iloc[-1]
    merged,       \* rows [ds, yhat] of pd.merge(future, forecast)
    cutoff,       \* df_prophet["ds"].max()
    top5_df,      \* rows [product_id, sales]
    store_agg,    \* rows [store_id, sales]
    display_df,   \* rows of merged shown in the forecast table
    rendered,     \* the outputs the run has put on the page
    error,        \* the exception that ended the run, or "none"
    prev          \* the selection returned by the previous run

vars == <<raw_df, widgets, state, store, product, filtered_df, latest, merged,
          cutoff, top5_df, store_agg, display_df, rendered, error, prev>>

----------------------------------------------------------------------------
(* Program constants *)

\* periods=30 of make_future_dataframe
HORIZON == 30

\* nlargest(5)
TOP_N == 5

\* pd.Timedelta(days=7)
WINDOW_DAYS == 7

\* what a selectbox without options returns (Python None); also stands for a
\* script variable the run never assigned
None == 0

----------------------------------------------------------------------------
(* Bounds of the inputs *)

\* longest table of the free-form input families
MaxRows == 2

StateIds == {1, 2}
StoreIds == {1, 2}
ProductIds == {1, 2}
SeriesDates == {1, 2, 4}
WindowDates == {2, 3, 10}
SalesValues == {1, 2}
CatalogProducts == 1 .. (TOP_N + 1)

\* one row of the table; margin and out_of_stock_pct only feed the two
\* averages printed in the KPI boxes and are left out
Row(d, s, t, p, v) ==
    [date |-> d, state |-> s, store_id |-> t, product_id |-> p, sales |-> v]

SeqsUpTo(S, n) == UNION {[1 .. k -> S] : k \in 0 .. n}

----------------------------------------------------------------------------
(* Helpers for pandas / Python primitives *)

Max(S) == CHOOSE x \in S : \A y \in S : y <= x

Min(S) == CHOOSE x \in S : \A y \in S : x <= y

Range(s) == {s[i] : i \in DOMAIN s}

\* sorted(<array of distinct values>)
RECURSIVE sorted(_)
sorted(S) ==
    IF S = {} THEN <<>>
    ELSE LET m == Min(S) IN <<m>> \o sorted(S \ {m})

\* the RangeIndex of a DataFrame (labels counted from 1 here)
Index(T) == [i \in 1 .. Len(T) |-> i]

\* Series.sum() over the rows with the given index labels
RECURSIVE SumSales(_, _)
SumSales(T, I) ==
    IF I = {} THEN 0
    ELSE LET i == Min(I) IN T[i].sales + SumSales(T, I \ {i})

----------------------------------------------------------------------------
(* FILTERS: the three hierarchical selectboxes and the boolean mask *)

\* A selectbox is identified by its label and its options: a rerun that
\* passes the options the widget was registered with returns the stored
\* choice, a rerun that passes other options registers a new widget showing
\* its first option.
selectbox(w, options) ==
    IF w.options = options THEN w ELSE [options |-> options, index |-> 1]

\* the value a selectbox returns: the chosen option, None without options
Value(w) == IF w.options = <<>> THEN None ELSE w.options[w.index]

\* sorted(raw_df["state"].unique())
StateOptions(T) == sorted({T[i].state : i \in DOMAIN T})

\* stores without the mask on state
stores_anyState(T, s) == {T[i].store_id : i \in DOMAIN T}

\* raw_df[raw_df["state"] == state]["store_id"].unique()
stores(T, s) == {T[i].store_id : i \in {j \in DOMAIN T : T[j].state = s}}

\* products with the mask on state alone
products_anyStore(T, s, t) ==
    {T[i].product_id : i \in {j \in DOMAIN T : T[j].state = s}}

\* raw_df[(state == ..) & (store_id == ..)]["product_id"].unique()
products(T, s, t) ==
    {T[i].product_id :
        i \in {j \in DOMAIN T : T[j].state = s /\ T[j].store_id = t}}

\* the mask without its product_id term
Filter_ignoresProduct(T, s, t, p) ==
    SelectSeq(Index(T), LAMBDA i : T[i].state = s /\ T[i].store_id = t)

\* raw_df[(state == ..) & (store_id == ..) & (product_id == ..)]
Filter(T, s, t, p) ==
    SelectSeq(Index(T),
              LAMBDA i : T[i].state = s /\ T[i].store_id = t
                         /\ T[i].product_id = p)

----------------------------------------------------------------------------
(* KPIs: the latest row; the three means are printed and read by nothing *)

\* position of the first row of f with the smallest date
FirstMinDate(T, f) ==
    LET md == Min({T[f[k]].date : k \in DOMAIN f})
    IN  Min({k \in DOMAIN f : T[f[k]].date = md})

\* f without its k-th element
Drop(f, k) == SubSeq(f, 1, k - 1) \o SubSeq(f, k + 1, Len(f))

\* filtered_df.sort_values("date"): ascending, rows of equal date keep their
\* order (pandas sorts short arrays by insertion)
RECURSIVE sort_values(_, _)
sort_values(T, f) ==
    IF f = <<>> THEN <<>>
    ELSE LET k == FirstMinDate(T, f)
         IN  <<f[k]>> \o sort_values(T, Drop(f, k))

\* .iloc[-1]; raises IndexError on an empty frame (checked by the caller)
ilocLast(f) == f[Len(f)]

----------------------------------------------------------------------------
(* PROPHET FORECAST *)

\* filtered_df[["date", "sales"]].rename(columns={"date": "ds", "sales": "y"})
df_prophet(T, f) == [k \in DOMAIN f |-> [ds |-> T[f[k]].date, y |-> T[f[k]].sales]]

\* Prophet.fit raises ValueError("Dataframe has less than 2 non-NaN rows")
TooFewRows(df) == Len(df) < 2

\* Prophet.fit: history_dates, the sorted distinct ds of the training frame
history_dates(df) == sorted({df[k].ds : k \in DOMAIN df})

\* make_future_dataframe that does not drop the start of the date range
make_future_dataframe_fromLast(hd, periods) ==
    LET last_date == hd[Len(hd)]
    IN  [k \in DOMAIN hd |-> [ds |-> hd[k]]]
        \o [k \in 1 .. periods |-> [ds |-> last_date + k - 1]]

\* model.make_future_dataframe(periods): the history dates followed by the
\* `periods` days after the last of them (freq='D', include_history=True)
make_future_dataframe(hd, periods) ==
    LET last_date == hd[Len(hd)]
    IN  [k \in DOMAIN hd |-> [ds |-> hd[k]]]
        \o [k \in 1 .. periods |-> [ds |-> last_date + k]]

\* model.predict(future)[["ds", "yhat"]]: one row per row of future; the
\* fitted model is opaque, fit stands for its parameters
predict(fit, future) ==
    [k \in DOMAIN future |->
        [ds |-> future[k].ds, yhat |-> fit.k + fit.m * future[k].ds]]

\* a merge that pairs every left row with every right row
RECURSIVE merge_cross(_, _)
merge_cross(left, right) ==
    IF left = <<>> THEN <<>> ELSE right \o merge_cross(Tail(left), right)

\* pd.merge(left, right, on="ds"): inner join, in the order of the left keys
RECURSIVE merge(_, _)
merge(left, right) ==
    IF left = <<>> THEN <<>>
    ELSE SelectSeq(right, LAMBDA r : r.ds = Head(left).ds)
         \o merge(Tail(left), right)

\* df_prophet["ds"].max()
Cutoff(df) == Max({df[k].ds : k \in DOMAIN df})

\* the forecast table with the cutoff row kept
DisplayRows_inclusive(m, c) == SelectSeq(m, LAMBDA r : r.ds >= c)

\* display_df[display_df['ds'] > cutoff]
DisplayRows(m, c) == SelectSeq(m, LAMBDA r : r.ds > c)

----------------------------------------------------------------------------
(* VISUALS: the two aggregations over the whole table *)

\* raw_df.groupby("product_id")["sales"].sum(): one entry per product, in
\* ascending order of the key
ProductTotals(T) ==
    LET ps == sorted({T[i].product_id : i \in DOMAIN T})
    IN  [k \in DOMAIN ps |->
            [product_id |-> ps[k],
             sales |-> SumSales(T, {i \in DOMAIN T : T[i].product_id = ps[k]})]]

\* position of the first entry of s with the largest sales
FirstMaxSales(s) ==
    LET mx == Max({s[k].sales : k \in DOMAIN s})
    IN  Min({k \in DOMAIN s : s[k].sales = mx})

\* head(n) in place of nlargest(n)
nlargest_head(n, s) == SubSeq(s, 1, IF n < Len(s) THEN n ELSE Len(s))

\* Series.nlargest(n): the n largest in descending order, ties in order of
\* appearance (keep='first')
RECURSIVE nlargest(_, _)
nlargest(n, s) ==
    IF n = 0 \/ s = <<>> THEN <<>>
    ELSE LET k == FirstMaxSales(s)
         IN  <<s[k]>> \o nlargest(n - 1, Drop(s, k))

\* raw_df["date"].max()
latest_date(T) == Max({T[i].date : i \in DOMAIN T})

\* the window without its first day
InWindow_exclusive(T) ==
    SelectSeq(Index(T), LAMBDA i : T[i].date > latest_date(T) - WINDOW_DAYS)

\* raw_df[raw_df["date"] >= latest_date - pd.Timedelta(days=7)]
InWindow(T) ==
    SelectSeq(Index(T), LAMBDA i : T[i].date >= latest_date(T) - WINDOW_DAYS)

\* .groupby("store_id")["sales"].sum().reset_index() of the window rows
StoreTotals(T) ==
    LET w  == Range(InWindow(T))
        ss == sorted({T[i].store_id : i \in w})
    IN  [k \in DOMAIN ss |->
            [store_id |-> ss[k],
             sales |-> SumSales(T, {i \in w : T[i].store_id = ss[k]})]]

----------------------------------------------------------------------------
(* One execution of the script, top to bottom *)

\* what a run leaves behind; a variable the run did not reach is None / <<>>
Page(w, s, t, p, f, l, m, c, top, agg, disp, r, e) ==
    [widgets |-> w, state |-> s, store |-> t, product |-> p,
     filtered_df |-> f, latest |-> l, merged |-> m, cutoff |-> c,
     top5_df |-> top, store_agg |-> agg, display_df |-> disp,
     rendered |-> r, error |-> e]

\* the outcomes of Prophet's fit/predict on a frame it accepts: a numerical
\* failure, or a fitted model (the two parameters of its trend)
FitOutcomes ==
    {[ok |-> FALSE, k |-> 0, m |-> 0],
     [ok |-> TRUE, k |-> 1, m |-> 0],
     [ok |-> TRUE, k |-> 0, m |-> 1]}

\* lines 68-117 once fit has accepted the frame, with the outcome `fit` of
\* fit/predict: an exception is not caught and ends the run there
Forecast(T, w, s, t, p, f, l, df, fit) ==
    IF ~fit.ok
    THEN Page(w, s, t, p, f, l, <<>>, None, <<>>, <<>>, <<>>,
              {"kpis"}, "ForecastError")
    ELSE LET future   == make_future_dataframe(history_dates(df), HORIZON)
             forecast == predict(fit, future)
             m        == merge(future, forecast)
             c        == Cutoff(df)
         IN  Page(w, s, t, p, f, l, m, c,
                  nlargest(TOP_N, ProductTotals(T)), StoreTotals(T),
                  DisplayRows(m, c),
                  {"kpis", "forecast_chart", "top5_chart", "store_chart",
                   "forecast_table"},
                  "none")

\* lines 68-117, entered with a non-empty filtered_df: the pages the run can
\* end with
ForecastAndVisuals(T, w, s, t, p, f, l) ==
    LET df == df_prophet(T, f)
    IN  IF TooFewRows(df)
        THEN {Page(w, s, t, p, f, l, <<>>, None, <<>>, <<>>, <<>>,
                   {"kpis"}, "ValueError")}
        ELSE {Forecast(T, w, s, t, p, f, l, df, fit) : fit \in FitOutcomes}

\* lines 44-117: the selectboxes, the mask, the KPIs and the rest; the set
\* of pages the run can end with.  iloc[-1] on an empty filtered_df raises
\* IndexError, which is not caught.
Script(T, ws) ==
    LET wState   == selectbox(ws.state, StateOptions(T))
        s        == Value(wState)
        wStore   == selectbox(ws.store, sorted(stores(T, s)))
        t        == Value(wStore)
        wProduct == selectbox(ws.product, sorted(products(T, s, t)))
        p        == Value(wProduct)
        w        == [state |-> wState, store |-> wStore, product |-> wProduct]
        f        == Filter(T, s, t, p)
    IN  IF f = <<>>
        THEN {Page(w, s, t, p, f, None, <<>>, None, <<>>, <<>>, <<>>,
                   {}, "IndexError")}
        ELSE ForecastAndVisuals(T, w, s, t, p, f, ilocLast(sort_values(T, f)))

----------------------------------------------------------------------------
(* The tables load_data() may return *)

\* the (state, store, product) triple number c of the 2 x 2 x 2 grid
GridRow(c) == Row(1, (c \div 4) + 1, ((c \div 2) % 2) + 1, (c % 2) + 1, 1)

\* one row for each triple of a subset of the grid: every shape of the
\* selector hierarchy
GridTables ==
    {[k \in DOMAIN sorted(S) |-> GridRow(sorted(S)[k])] : S \in SUBSET (0 .. 7)}

\* short tables over two states and two products with repeated, contiguous
\* and gapped dates: the series the forecast is fitted on
SeriesTables ==
    SeqsUpTo({Row(d, s, 1, p, v) :
                 d \in SeriesDates, s \in StateIds, p \in ProductIds,
                 v \in SalesValues},
             MaxRows)

\* rows of one state and product over two stores, with dates on both sides
\* of the trailing window's lower end
WindowRows ==
    {Row(d, 1, t, 1, v) : d \in WindowDates, t \in StoreIds, v \in SalesValues}

\* short tables of such rows, and the tables of two rows of store 1 (a
\* series the forecast accepts) followed by one row of store 2
WindowTables ==
    SeqsUpTo(WindowRows, MaxRows)
        \cup {<<Row(d[1], 1, 1, 1, v[1]), Row(d[2], 1, 1, 1, v[2]),
                Row(d[3], 1, 2, 1, v[3])>> :
                  d \in [1 .. 3 -> WindowDates], v \in [1 .. 3 -> SalesValues]}

\* one row for each of TOP_N + 1 products, preceded by at most one more row
CatalogTables ==
    {extra \o [i \in CatalogProducts |-> Row(1, 1, 1, i, base[i])] :
        extra \in SeqsUpTo({Row(1, 1, 1, p, v) :
                               p \in CatalogProducts, v \in SalesValues}, 1),
        base \in [CatalogProducts -> SalesValues]}

\* two products with two rows each: a change of selection between two
\* series the forecast accepts
PairedTables ==
    {<<Row(1, 1, 1, 1, v[1]), Row(2, 1, 1, 1, v[2]),
       Row(1, 1, 1, 2, v[3]), Row(2, 1, 1, 2, v[4])>> :
        v \in [1 .. 4 -> SalesValues]}

Tables ==
    GridTables \cup SeriesTables \cup WindowTables \cup CatalogTables
        \cup PairedTables

----------------------------------------------------------------------------
(* The state machine *)

\* a session in which no widget has been registered yet
NoWidget == [options |-> <<>>, index |-> 1]

\* the assignments of a run that ends with the page `out`
Assign(out) ==
    /\ widgets' = out.widgets
    /\ state' = out.state
    /\ store' = out.store
    /\ product' = out.product
    /\ filtered_df' = out.filtered_df
    /\ latest' = out.latest
    /\ merged' = out.merged
    /\ cutoff' = out.cutoff
    /\ top5_df' = out.top5_df
    /\ store_agg' = out.store_agg
    /\ display_df' = out.display_df
    /\ rendered' = out.rendered
    /\ error' = out.error

\* a rerun of the script in the running session
Rerun(ws) ==
    \E out \in Script(raw_df, ws) :
        /\ Assign(out)
        /\ prev' = <<state, store, product>>
        /\ UNCHANGED raw_df

\* load_data() and the first run of a new session
Init ==
    \E T \in Tables :
        \E out \in Script(T, [state |-> NoWidget, store |-> NoWidget,
                              product |-> NoWidget]) :
            /\ raw_df = T
            /\ widgets = out.widgets
            /\ state = out.state
            /\ store = out.store
            /\ product = out.product
            /\ filtered_df = out.filtered_df
            /\ latest = out.latest
            /\ merged = out.merged
            /\ cutoff = out.cutoff
            /\ top5_df = out.top5_df
            /\ store_agg = out.store_agg
            /\ display_df = out.display_df
            /\ rendered = out.rendered
            /\ error = out.error
            /\ prev = <<None, None, None>>

\* the user picks another option of "Select State"; the script reruns
ChangeState ==
    \E i \in DOMAIN widgets.state.options :
        /\ i # widgets.state.index
        /\ Rerun([widgets EXCEPT !.state.index = i])

\* the user picks another option of "Select Store"; the script reruns
ChangeStore ==
    \E i \in DOMAIN widgets.store.options :
        /\ i # widgets.store.index
        /\ Rerun([widgets EXCEPT !.store.index = i])

\* the user picks another option of "Select Product"; the script reruns
ChangeProduct ==
    \E i \in DOMAIN widgets.product.options :
        /\ i # widgets.product.index
        /\ Rerun([widgets EXCEPT !.product.index = i])

Next == ChangeState \/ ChangeStore \/ ChangeProduct

Spec == Init /\ [][Next]_vars

----------------------------------------------------------------------------
(* What the claims read *)

\* the user has changed a selector at least once
Changed == prev # <<None, None, None>>

\* the distinct dates of the filtered table
FilteredDates == {raw_df[filtered_df[k]].date : k \in DOMAIN filtered_df}

\* the rows of raw_df that equal the selection in force in all three fields
MatchingRows ==
    {i \in DOMAIN raw_df :
        /\ raw_df[i].state = state
        /\ raw_df[i].store_id = store
        /\ raw_df[i].product_id = product}

\* the run went through fit and predict without an exception
ForecastDone == error = "none"

----------------------------------------------------------------------------
(* C1 *)

\* C1: the filtered table built by the script holds exactly the rows of
\* raw_df whose state, store_id and product_id equal the selected values:
\* every row it holds matches, and every matching row is held exactly once.
C1_FilterExact ==
    /\ \A k \in DOMAIN filtered_df : filtered_df[k] \in MatchingRows
    /\ \A i \in MatchingRows :
           Cardinality({k \in DOMAIN filtered_df : filtered_df[k] = i}) = 1

\* after a change of selection, two rows are kept and others are left out
C1_Witness ==
    /\ Changed
    /\ Len(filtered_df) >= 2
    /\ \E i \in DOMAIN raw_df : raw_df[i].product_id # product

----------------------------------------------------------------------------
(* C2 *)

\* C2: after any sequence of selector changes the selection in force is
\* hierarchical: the state occurs in the table, the store occurs in a row of
\* that state, the product occurs in a row of that state and store (so a
\* choice that is not in the new choice set is never kept).  Without rows
\* there is nothing to select and the three selectors return None.
C2_HierarchicalSelection ==
    IF raw_df = <<>>
    THEN state = None /\ store = None /\ product = None
    ELSE /\ \E i \in DOMAIN raw_df : raw_df[i].state = state
         /\ \E i \in DOMAIN raw_df :
                raw_df[i].state = state /\ raw_df[i].store_id = store
         /\ MatchingRows # {}

\* the state was changed, and the store and the product chosen before do not
\* occur together in the new state
C2_Witness ==
    /\ Changed
    /\ prev[1] # state
    /\ ~ \E i \in DOMAIN raw_df :
            /\ raw_df[i].state = state
            /\ raw_df[i].store_id = prev[2]
    /\ store # prev[2]

----------------------------------------------------------------------------
(* C3 *)

\* C3 (as claimed): a selection that matches no row ends the run in an
\* explicit no-data outcome, never in an uncaught exception.
C3_EmptySelectionHandled ==
    (filtered_df = <<>>) => error \in {"none", "EmptyInputError"}

----------------------------------------------------------------------------
(* C4 *)

\* C4 (as claimed): when fit or predict fails, the KPIs, the top-5 chart and
\* the store chart are still rendered and only the forecast chart and table
\* are skipped.
C4_ForecastFailureLocalized ==
    (error \in {"ValueError", "ForecastError"}) =>
        /\ {"kpis", "top5_chart", "store_chart"} \subseteq rendered
        /\ rendered \cap {"forecast_chart", "forecast_table"} = {}

----------------------------------------------------------------------------
(* C5 *)

\* the dates of merged, in order
MergedDates == [k \in DOMAIN merged |-> merged[k].ds]

\* C5 (as claimed): with at least 2 distinct dates in the filtered table the
\* dates of merged are every day from its minimum date to its maximum date
\* plus the horizon.
C5_ContiguousFromMin ==
    (ForecastDone /\ Cardinality(FilteredDates) >= 2) =>
        MergedDates =
            [k \in 1 .. (Max(FilteredDates) - Min(FilteredDates) + 1 + HORIZON)
                |-> Min(FilteredDates) + k - 1]

\* C5 (amended): the dates of merged are the distinct dates of the filtered
\* table in ascending order followed by the HORIZON days after its maximum
\* date; they are every day from the minimum to the maximum plus the
\* horizon when the filtered table has no gap, and a gap of the filtered
\* table is a gap of merged.
C5_HistoryThenHorizon ==
    ForecastDone =>
        LET n == Cardinality(FilteredDates)
        IN  /\ Len(merged) = n + HORIZON
            /\ {MergedDates[k] : k \in 1 .. n} = FilteredDates
            /\ \A k \in 1 .. (Len(merged) - 1) :
                   MergedDates[k] < MergedDates[k + 1]
            /\ \A k \in 1 .. HORIZON :
                   MergedDates[n + k] = Max(FilteredDates) + k
            /\ \A d \in Min(FilteredDates) .. Max(FilteredDates) :
                   (d \in Range(MergedDates)) <=> (d \in FilteredDates)

\* a forecast on a filtered table with a missing day between its dates
C5_Witness ==
    /\ ForecastDone
    /\ \E d \in Min(FilteredDates) .. Max(FilteredDates) : d \notin FilteredDates

----------------------------------------------------------------------------
(* C6 *)

\* C6 (as claimed): every observed date has a row of merged that carries
\* the observed value and a prediction, and every other row carries a
\* prediction and no observed value.
C6_OuterJoinWithActual ==
    ForecastDone =>
        /\ \A i \in Range(filtered_df) :
               \E k \in DOMAIN merged :
                   /\ merged[k].ds = raw_df[i].date
                   /\ DOMAIN merged[k] = {"ds", "y", "yhat"}
                   /\ merged[k].y = raw_df[i].sales
        /\ \A k \in DOMAIN merged :
               merged[k].ds \notin FilteredDates =>
                   "yhat" \in DOMAIN merged[k]

\* C6 (amended): merged is the inner join on date of the future frame and
\* the prediction: each observed date and each of the HORIZON days after
\* the last of them has exactly one row, and every row, of an observed date
\* or not, carries the date and the prediction and nothing else.
C6_InnerJoinOfFuture ==
    ForecastDone =>
        /\ \A d \in FilteredDates \cup
                    (Max(FilteredDates) + 1 .. Max(FilteredDates) + HORIZON) :
               Cardinality({k \in DOMAIN merged : merged[k].ds = d}) = 1
        /\ \A k \in DOMAIN merged : DOMAIN merged[k] = {"ds", "yhat"}
        /\ Len(merged) = Cardinality(FilteredDates) + HORIZON

\* a forecast on a filtered table with two rows of different dates
C6_Witness ==
    /\ ForecastDone
    /\ Cardinality(FilteredDates) >= 2
    /\ Len(merged) > HORIZON

----------------------------------------------------------------------------
(* C7 *)

\* C7: the cutoff is the largest date observed in the filtered table, never
\* a date of the horizon, and the forecast table holds exactly the HORIZON
\* dates after it and no observed date.
C7_CutoffIsLastObserved ==
    ForecastDone =>
        /\ cutoff \in FilteredDates
        /\ \A d \in FilteredDates : d <= cutoff
        /\ Len(display_df) = HORIZON
        /\ {display_df[k].ds : k \in DOMAIN display_df}
               = (cutoff + 1) .. (cutoff + HORIZON)
        /\ \A k \in DOMAIN display_df : display_df[k].ds \notin FilteredDates

\* a forecast after a change of selection, on rows of different dates
C7_Witness ==
    /\ ForecastDone
    /\ Changed
    /\ Cardinality(FilteredDates) >= 2
    /\ display_df # <<>>

----------------------------------------------------------------------------
(* C8 *)

\* the total sales of product p over the whole table
TotalOf(p) == SumSales(raw_df, {i \in DOMAIN raw_df : raw_df[i].product_id = p})

\* the products of the top-5 frame
Top5Products == {top5_df[k].product_id : k \in DOMAIN top5_df}

\* at most TOP_N entries of distinct products of the table, in descending
\* order of total, each with the sum of its product's sales over the whole
\* table, and no product left out has a larger total than one kept
Top5Sound ==
    ("top5_chart" \in rendered) =>
        /\ Len(top5_df) <= TOP_N
        /\ Top5Products # {}
        /\ Cardinality(Top5Products) = Len(top5_df)
        /\ \A k \in 1 .. (Len(top5_df) - 1) :
               top5_df[k].sales >= top5_df[k + 1].sales
        /\ \A k \in DOMAIN top5_df :
               /\ \E i \in DOMAIN raw_df :
                      raw_df[i].product_id = top5_df[k].product_id
               /\ top5_df[k].sales = TotalOf(top5_df[k].product_id)
        /\ \A i \in DOMAIN raw_df :
               raw_df[i].product_id \notin Top5Products =>
                   \A k \in DOMAIN top5_df :
                       TotalOf(raw_df[i].product_id) <= top5_df[k].sales

\* C8: the top-products frame holds at most 5 entries in descending order
\* of total sales, each total being the sum of sales of that product over
\* the whole table, no product outside it has a strictly larger total than a
\* product inside it, and it is the same frame after a change of selection.
C8_TopProducts ==
    /\ []Top5Sound
    /\ [][("top5_chart" \in rendered /\ "top5_chart" \in rendered')
              => top5_df' = top5_df]_vars

\* the chart is drawn after a change of selection on a table of more than
\* TOP_N products, one of them with two rows
C8_Witness ==
    /\ Changed
    /\ "top5_chart" \in rendered
    /\ Cardinality({raw_df[i].product_id : i \in DOMAIN raw_df}) > TOP_N
    /\ Len(top5_df) = TOP_N
    /\ \E k \in DOMAIN top5_df : top5_df[k].product_id # product

----------------------------------------------------------------------------
(* C9 *)

\* the rows of the whole table dated on or after day `from`
RowsFrom(from) == {i \in DOMAIN raw_df : raw_df[i].date >= from}

\* the largest date of the whole table
LastDate == Max({raw_df[i].date : i \in DOMAIN raw_df})

\* C9: the store frame holds one entry for each store with a row dated on
\* or after the largest date of the table minus 7 days, and no other; the
\* entry is the sum of the sales of exactly those rows of the store.  With
\* the largest date 10 no row dated before 3 is counted.
C9_TrailingWindow ==
    ("store_chart" \in rendered) =>
        LET W == RowsFrom(LastDate - WINDOW_DAYS)
        IN  /\ {store_agg[k].store_id : k \in DOMAIN store_agg}
                   = {raw_df[i].store_id : i \in W}
            /\ Cardinality({raw_df[i].store_id : i \in W}) = Len(store_agg)
            /\ \A k \in DOMAIN store_agg :
                   store_agg[k].sales =
                       SumSales(raw_df,
                                {i \in W :
                                    raw_df[i].store_id = store_agg[k].store_id})
            /\ (LastDate = 10) =>
                   \A k \in DOMAIN store_agg :
                       store_agg[k].sales =
                           SumSales(raw_df,
                                    {i \in RowsFrom(3) :
                                        raw_df[i].store_id
                                            = store_agg[k].store_id})

\* the chart is drawn for a table with a row on the first day of the window
\* and a store whose only row is older
C9_Witness ==
    /\ "store_chart" \in rendered
    /\ \E i \in DOMAIN raw_df : raw_df[i].date = LastDate - WINDOW_DAYS
    /\ \E i \in DOMAIN raw_df :
           /\ raw_df[i].date < LastDate - WINDOW_DAYS
           /\ \A k \in DOMAIN store_agg :
                  store_agg[k].store_id # raw_df[i].store_id

----------------------------------------------------------------------------
(* C10 *)

\* C10: on a table with rows, every selection the three selectors return,
\* after any sequence of changes, keeps at least one row, and the latest-row
\* lookup is never made on an empty frame.
C10_FilteredNonEmpty ==
    (raw_df # <<>>) =>
        /\ filtered_df # <<>>
        /\ error # "IndexError"
        /\ latest \in Range(filtered_df)

\* a selection reached by a change that leaves other rows of the table out
C10_Witness ==
    /\ Changed
    /\ filtered_df # <<>>
    /\ Len(raw_df) > Len(filtered_df)
    /\ latest # None

====
